---- MODULE Spec2Model ----
(***************************************************************************)
(* Model of incremental_merge.py: the resumable merger that folds batches  *)
(* of externally produced images into video segments and muxes them.       *)
(* The work directory (configuration file, images, segments, temporary     *)
(* segment, final output) survives a crash; the process state does not.    *)
(***************************************************************************)
EXTENDS FiniteSets, Integers, Naturals, Sequences, TLC

\* ---------------------------------------------------------------- bounds
MaxFrames == 5      \* largest frame_count of the input's video track
MaxBatch == 2       \* largest --batch_size on a command line
MaxStart == 1       \* largest --start_index on a command line
MaxPoll == 1        \* largest --poll_time on a command line
MaxCount == 3       \* largest --num_frames on an extract.py command line
MaxCrashes == 2     \* most kills of the merger in a crash-restart run

\* --------------------------------------------------------------- domains
Paths == {1, 2}                     \* two spellings of each path argument
NoPath == 0                         \* an argument that was not given (None)
FrameCounts == 1..MaxFrames
SegIds == 0..(MaxFrames - 1)        \* indices of segment_%d.mp4 files

Min(a, b) == IF a <= b THEN a ELSE b

\* The fields make_config() stores: vars(args) without "resume".
ConfigKeys == {"input_filename", "work_directory", "output_filename",
               "start_index", "batch_size", "poll_time", "md5"}

\* extract.py's namespace before it is parsed.
NoExtract == [input_filename |-> NoPath, output_filename |-> NoPath,
              start_index |-> 0, num_frames |-> 0]

NoConfig == [input_filename |-> NoPath, work_directory |-> NoPath,
             output_filename |-> NoPath, start_index |-> 0,
             batch_size |-> 0, poll_time |-> 0, md5 |-> 0]

VARIABLES
    \* the work directory and the input, as files on disk
    workdir,      \* the work directory exists
    cfgFile,      \* config.json: [st: absent | partial | full, data]
    images,       \* indices of the image files that exist
    segs,         \* indices of the segment files that exist
    temp,         \* segment_temp.mp4 exists
    output,       \* the final output file exists
    master,       \* master_concat.txt: [none, list], the segments it lists
    input_exists, \* the input file is (still) there
    \* the input's media descriptor, as MediaInfo and ffprobe report it
    video_info,   \* [frame_count, frame_rate_mode]
    probed,       \* the duration lines ffprobe prints
    \* the merger process
    pc,           \* position of the process, or idle / aborted / done
    resume,       \* --resume was given
    args,         \* the argparse namespace
    durations,    \* [none, list]: None or the probed list
    segment_durations, \* [none, list]: None or the slice for the batch
    i,            \* loop variable of merge_images_loop
    begin, end,   \* batch range of the segment being processed
    k,            \* next file of the deletion loop
    segments,     \* list returned by merge_images_loop
    desc,         \* description shown on the progress bar
    rc,           \* exit status of the last external-tool invocation: -1 none
    abortAt,      \* source line of the failed assertion or exception
    \* history
    created,      \* created[s]: times segment s was renamed into place (capped)
    deleted,      \* image indices the merger has unlinked
    \* beside the merger
    peer,         \* the process variables of a second merger instance
    crashes,      \* kills counted where they are bounded
    extractor     \* extract.py: [pc, args, calls, status, frames]

disk == <<workdir, cfgFile, images, segs, temp, output, master, input_exists>>
media == <<video_info, probed>>
proc == <<pc, resume, args, durations, segment_durations, i, begin, end, k, segments, desc, rc, abortAt>>
hist == <<created, deleted>>
aux == <<peer, crashes, extractor>>
vars == <<disk, media, proc, hist, aux>>

\* ------------------------------------------------------- pure functions
None == [none |-> TRUE, list |-> <<>>]
Some(l) == [none |-> FALSE, list |-> l]

\* Python's list[b:e] for 0 <= b: elements b..e-1 (0-based), clamped.
PySlice(l, b, e) ==
    LET hi == Min(e, Len(l))
    IN  IF b >= hi THEN <<>> ELSE [n \in 1..(hi - b) |-> l[b + n]]

\* Variant: the checksum is left out of the configuration.
make_config_NoMd5(a) ==
    [key \in ConfigKeys |-> IF key = "md5" THEN 0 ELSE a[key]]

\* make_config: the namespace without "resume", paths as strings.
make_config(a) == [key \in ConfigKeys |-> a[key]]

\* Variant: a trailing partial batch counts as a segment.
num_segments_Ceil(frame_count, batch_size) ==
    (frame_count + batch_size - 1) \div batch_size

\* merge_images_loop, line 252.
num_segments(frame_count, batch_size) == frame_count \div batch_size

\* Variant: the start index is forgotten.
SegBegin_NoStart(a, s) == s * a.batch_size

\* merge_images_loop, line 261.
SegBegin(a, s) == a.start_index + s * a.batch_size

\* Variant: the last segment is a batch like the others.
SegEnd_NoRemainder(a, frame_count, s) == SegBegin(a, s) + a.batch_size - 1

\* Variant: the last segment runs one image too far.
SegEnd_OneTooFar(a, frame_count, s) ==
    IF s + 1 = num_segments(frame_count, a.batch_size)
    THEN a.start_index + frame_count
    ELSE SegBegin(a, s) + a.batch_size - 1

\* merge_images_loop, lines 262-264.
SegEnd(a, frame_count, s) ==
    IF s + 1 = num_segments(frame_count, a.batch_size)
    THEN a.start_index + frame_count - 1
    ELSE SegBegin(a, s) + a.batch_size - 1

\* Variant: the check looks one index too far.
PastTheEnd_OneTooFar(a, frame_count) == a.start_index + frame_count + 1

\* merge_images_loop, line 278.
PastTheEnd(a, frame_count) == a.start_index + frame_count

\* ------------------------------------------------------- command lines
Starts == (-1)..MaxStart
Batches == 0..MaxBatch
Polls == (-1)..MaxPoll
Md5s == {1, 2}

CommandLines ==
    [input_filename : Paths, work_directory : Paths, output_filename : Paths,
     start_index : Starts, batch_size : Batches, poll_time : Polls,
     md5 : Md5s]

\* New runs that differ in -s and -n alone.
MergeLines ==
    {c \in CommandLines :
        /\ c.input_filename = 1
        /\ c.work_directory = 1
        /\ c.output_filename = 1
        /\ c.poll_time = 0
        /\ c.md5 = 1}

\* New runs that differ in any one field from the plainest of them.
PlainLine == [input_filename |-> 1, work_directory |-> 1,
              output_filename |-> 1, start_index |-> 0, batch_size |-> 1,
              poll_time |-> 0, md5 |-> 1]
ConfigLines ==
    {c \in CommandLines :
        Cardinality({key \in ConfigKeys : c[key] # PlainLine[key]}) <= 1}

\* --resume gives the work directory; -i, -s, -n and -p may come along.
ResumeLines ==
    [input_filename : {NoPath, 2}, work_directory : Paths,
     output_filename : {NoPath}, start_index : {0, MaxStart},
     batch_size : {MaxBatch}, poll_time : {0}, md5 : {0}]

\* ---------------------------------------------------------------- init
\* A merger that was never started.
NoProcess ==
    [pc |-> "idle", resume |-> FALSE, args |-> NoConfig, durations |-> None,
     segment_durations |-> None, i |-> 0, begin |-> 0, end |-> 0, k |-> 0,
     segments |-> <<>>, desc |-> "", rc |-> -1, abortAt |-> ""]

\* An extractor that was never started.
NoExtractor ==
    [pc |-> "idle", args |-> NoExtract, calls |-> 0, status |-> -1,
     frames |-> -1]

Fresh ==
    /\ resume = FALSE
    /\ args = NoConfig
    /\ durations = None
    /\ segment_durations = None
    /\ i = 0
    /\ begin = 0
    /\ end = 0
    /\ k = 0
    /\ segments = <<>>
    /\ desc = ""

Init ==
    /\ workdir = FALSE
    /\ cfgFile = [st |-> "absent", data |-> NoConfig]
    /\ images = {}
    /\ segs = {}
    /\ temp = FALSE
    /\ output = FALSE
    /\ master = None
    /\ input_exists = TRUE
    /\ \E n \in FrameCounts, m \in {"CFR", "VFR"} :
          video_info = [frame_count |-> n, frame_rate_mode |-> m]
    /\ \E n \in IF video_info.frame_rate_mode = "CFR" THEN {0}
                 ELSE {video_info.frame_count, video_info.frame_count - 1} :
          probed = [d \in 1..n |-> d]
    /\ pc = "idle"
    /\ Fresh
    /\ rc = -1
    /\ abortAt = ""
    /\ created = [s \in SegIds |-> 0]
    /\ deleted = {}
    /\ peer = NoProcess
    /\ crashes = 0
    /\ extractor = NoExtractor

Stopped == {"idle", "aborted", "done"}
Running == pc \notin Stopped

\* The process is gone and its variables with it.
Reset ==
    /\ resume' = FALSE
    /\ args' = NoConfig
    /\ durations' = None
    /\ segment_durations' = None
    /\ i' = 0
    /\ begin' = 0
    /\ end' = 0
    /\ k' = 0
    /\ segments' = <<>>
    /\ desc' = ""

\* A failed assertion or an uncaught exception at source line `line`.
Abort(line) ==
    /\ pc' = "aborted"
    /\ abortAt' = line
    /\ Reset
    /\ UNCHANGED rc

frame_count == video_info.frame_count

\* ------------------------------------------------ Arguments.__init__
\* A new run: -i, -w and -o given (lines 57-61, 75-89).
StartNew(c) ==
    /\ ~Running
    /\ rc' = -1
    /\ UNCHANGED <<cfgFile, images, segs, temp, output, master, input_exists,
                   media, aux, hist>>
    /\ workdir' = (workdir \/ input_exists)
    /\ IF ~input_exists THEN Abort("L79")
       ELSE IF c.start_index < 0 THEN Abort("L85")
       ELSE IF c.batch_size <= 0 THEN Abort("L86")
       ELSE IF c.poll_time < 0 THEN Abort("L87")
       ELSE /\ pc' = "verify"
            /\ resume' = FALSE
            /\ args' = c
            /\ abortAt' = ""
            /\ UNCHANGED <<durations, segment_durations, i, begin, end, k,
                           segments, desc>>

\* Variant: a resume gives up while another merger runs.
StartResume_Locked(c) ==
    /\ ~Running
    /\ rc' = -1
    /\ UNCHANGED <<disk, media, aux, hist>>
    /\ IF ~workdir THEN Abort("L91")
       ELSE IF peer.pc \notin Stopped THEN Abort("locked")
       ELSE /\ pc' = "verify"
            /\ resume' = TRUE
            /\ args' = c
            /\ abortAt' = ""
            /\ UNCHANGED <<durations, segment_durations, i, begin, end, k,
                           segments, desc>>

\* A pure resume: --resume <work directory> (lines 62-63, 75, 90-91).
StartResume(c) ==
    /\ ~Running
    /\ rc' = -1
    /\ UNCHANGED <<disk, media, aux, hist>>
    /\ IF ~workdir THEN Abort("L91")
       ELSE /\ pc' = "verify"
            /\ resume' = TRUE
            /\ args' = c
            /\ abortAt' = ""
            /\ UNCHANGED <<durations, segment_durations, i, begin, end, k,
                           segments, desc>>

\* ------------------------------------------------------ verify_config
\* Variant: the start index of the command line is kept.
VerifyResume_KeepStart ==
    /\ pc = "verify"
    /\ resume
    /\ UNCHANGED <<disk, media, aux, hist>>
    /\ IF cfgFile.st = "absent" THEN Abort("L120")
       ELSE IF cfgFile.st = "partial" THEN Abort("L121")
       ELSE IF ~input_exists THEN Abort("L124")
       ELSE IF args.work_directory # cfgFile.data.work_directory
            THEN Abort("L125")
       ELSE /\ args' = [args EXCEPT
                           !.input_filename = cfgFile.data.input_filename,
                           !.output_filename = cfgFile.data.output_filename,
                           !.batch_size = cfgFile.data.batch_size,
                           !.poll_time = cfgFile.data.poll_time]
            /\ pc' = "probe"
            /\ UNCHANGED <<resume, durations, segment_durations, i, begin,
                           end, k, segments, desc, rc, abortAt>>

\* Lines 119-129: current_config is None.
VerifyResume ==
    /\ pc = "verify"
    /\ resume
    /\ UNCHANGED <<disk, media, aux, hist>>
    /\ IF cfgFile.st = "absent" THEN Abort("L120")
       ELSE IF cfgFile.st = "partial" THEN Abort("L121")
       ELSE IF ~input_exists THEN Abort("L124")
       ELSE IF args.work_directory # cfgFile.data.work_directory
            THEN Abort("L125")
       ELSE /\ args' = [args EXCEPT
                           !.input_filename = cfgFile.data.input_filename,
                           !.output_filename = cfgFile.data.output_filename,
                           !.start_index = cfgFile.data.start_index,
                           !.batch_size = cfgFile.data.batch_size,
                           !.poll_time = cfgFile.data.poll_time]
            /\ pc' = "probe"
            /\ UNCHANGED <<resume, durations, segment_durations, i, begin,
                           end, k, segments, desc, rc, abortAt>>

\* Variant: a differing configuration replaces the stored one.
VerifyNew_Overwrite ==
    /\ pc = "verify"
    /\ ~resume
    /\ UNCHANGED <<workdir, images, segs, temp, output, master, input_exists, media, aux, hist>>
    /\ IF cfgFile.st = "partial"
       THEN /\ Abort("L135")
            /\ UNCHANGED cfgFile
       ELSE /\ cfgFile' = [st |-> "full", data |-> make_config(args)]
            /\ pc' = "probe"
            /\ UNCHANGED <<resume, args, durations, segment_durations, i,
                           begin, end, k, segments, desc, rc, abortAt>>

\* Lines 130-137: a configuration was computed from the command line.
VerifyNew ==
    /\ pc = "verify"
    /\ ~resume
    /\ UNCHANGED <<workdir, images, segs, temp, output, master, input_exists, media, aux, hist>>
    /\ IF cfgFile.st = "absent"
       THEN \* open(config_filename, 'w') creates the file, still empty
            /\ cfgFile' = [st |-> "partial", data |-> NoConfig]
            /\ pc' = "dump"
            /\ UNCHANGED <<resume, args, durations, segment_durations, i,
                           begin, end, k, segments, desc, rc, abortAt>>
       ELSE /\ UNCHANGED cfgFile
            /\ IF cfgFile.st = "partial" THEN Abort("L135")
               ELSE IF cfgFile.data # make_config(args) THEN Abort("L137")
               ELSE /\ pc' = "probe"
                    /\ UNCHANGED <<resume, args, durations,
                                   segment_durations, i, begin, end, k,
                                   segments, desc, rc, abortAt>>

\* Line 133: json.dump completes and the file is closed.
DumpConfig ==
    /\ pc = "dump"
    /\ cfgFile' = [st |-> "full", data |-> make_config(args)]
    /\ pc' = "probe"
    /\ UNCHANGED <<workdir, images, segs, temp, output, master, input_exists, media, aux, hist, resume,
                   args, durations, segment_durations, i, begin, end, k,
                   segments, desc, rc, abortAt>>

\* ------------------------------------- verify_input_and_get_durations
\* Variant: the length of the probed list is not compared.
Probe_Unchecked ==
    /\ pc = "probe"
    /\ UNCHANGED <<disk, media, aux, hist>>
    /\ IF ~input_exists THEN Abort("L304")
       ELSE /\ durations' = IF video_info.frame_rate_mode # "CFR"
                            THEN Some(probed) ELSE None
            /\ pc' = "loop"
            /\ i' = 0
            /\ segments' = <<>>
            /\ UNCHANGED <<resume, args, segment_durations, begin, end, k,
                           desc, rc, abortAt>>

\* Line 304 reads the input; lines 166-174; then merge_images_loop's
\* lines 251-254.
Probe ==
    /\ pc = "probe"
    /\ UNCHANGED <<disk, media, aux, hist>>
    /\ IF ~input_exists THEN Abort("L304")
       ELSE IF video_info.frame_rate_mode # "CFR" /\ frame_count # Len(probed)
       THEN Abort("L171")
       ELSE /\ durations' = IF video_info.frame_rate_mode # "CFR"
                            THEN Some(probed) ELSE None
            /\ pc' = "loop"
            /\ i' = 0
            /\ segments' = <<>>
            /\ UNCHANGED <<resume, args, segment_durations, begin, end, k,
                           desc, rc, abortAt>>

\* --------------------------------------------------- merge_images_loop
\* Variant: the existence check is lost.
SegmentExists_Never(s) == FALSE

\* Line 260: segment_filename.exists().
SegmentExists(s) == s \in segs

\* Variant: a segment that is already there is left out of the list.
LoopStep_SkipUnlisted ==
    /\ pc = "loop"
    /\ UNCHANGED <<disk, media, aux, hist, resume, args, durations, k, rc, abortAt>>
    /\ IF i = num_segments(frame_count, args.batch_size)
       THEN /\ pc' = "sanity"
            /\ UNCHANGED <<segment_durations, i, begin, end, segments, desc>>
       ELSE IF SegmentExists(i)
       THEN /\ desc' = "Progress"
            /\ i' = i + 1
            /\ UNCHANGED <<pc, segment_durations, begin, end, segments>>
       ELSE /\ desc' = "Progress"
            /\ begin' = SegBegin(args, i)
            /\ end' = SegEnd(args, frame_count, i)
            /\ segment_durations' =
                  IF durations.none THEN None
                  ELSE Some(PySlice(durations.list, begin', end' + 1))
            /\ pc' = "wait"
            /\ UNCHANGED <<i, segments>>

\* Lines 256-266 and 272-274: one pass of the for loop up to the wait,
\* or the whole pass when the segment is already there.
LoopStep ==
    /\ pc = "loop"
    /\ UNCHANGED <<disk, media, aux, hist, resume, args, durations, k, rc, abortAt>>
    /\ IF i = num_segments(frame_count, args.batch_size)
       THEN /\ pc' = "sanity"
            /\ UNCHANGED <<segment_durations, i, begin, end, segments, desc>>
       ELSE IF SegmentExists(i)
       THEN /\ desc' = "Progress"
            /\ segments' = Append(segments, i)
            /\ i' = i + 1
            /\ UNCHANGED <<pc, segment_durations, begin, end>>
       ELSE /\ desc' = "Progress"
            /\ begin' = SegBegin(args, i)
            /\ end' = SegEnd(args, frame_count, i)
            /\ segment_durations' =
                  IF durations.none THEN None
                  ELSE Some(PySlice(durations.list, begin', end' + 1))
            /\ pc' = "wait"
            /\ UNCHANGED <<i, segments>>

\* Variant: the wait gives up at once.
MarkerExists_Always == TRUE

\* Line 244: end_filename.exists().
MarkerExists == end \in images

\* Lines 244-246: the marker is absent; say so, sleep poll_time and look
\* again.
Poll ==
    /\ pc = "wait"
    /\ ~MarkerExists
    /\ desc' = "Waiting"
    /\ UNCHANGED <<disk, media, aux, hist, pc, resume, args, durations,
                   segment_durations, i, begin, end, k, segments, rc, abortAt>>

\* Lines 244, 249: the marker is there; the wait returns.
WaitDone ==
    /\ pc = "wait"
    /\ MarkerExists
    /\ pc' = "merge"
    /\ UNCHANGED <<disk, media, aux, hist, resume, args, durations,
                   segment_durations, i, begin, end, k, segments, desc, rc, abortAt>>

\* -------------------------------------------------------- merge_images
\* Variant: the images of the batch are not looked for.
MergeStart_Unchecked ==
    /\ pc = "merge"
    /\ UNCHANGED <<disk, media, aux, hist>>
    /\ IF video_info.frame_rate_mode # "CFR" THEN Abort("L229")
       ELSE /\ pc' = "ffmpeg"
            /\ UNCHANGED <<resume, args, durations, segment_durations, i,
                           begin, end, k, segments, desc, rc, abortAt>>

\* Lines 210-235 up to the start of the external tool. With a variable
\* frame rate line 229 reads the name i, which is bound only inside the
\* comprehension of line 210: NameError.
MergeStart ==
    /\ pc = "merge"
    /\ UNCHANGED <<disk, media, aux, hist>>
    /\ IF \E f \in begin..end : f \notin images THEN Abort("L212")
       ELSE IF video_info.frame_rate_mode # "CFR" THEN Abort("L229")
       ELSE /\ pc' = "ffmpeg"
            /\ UNCHANGED <<resume, args, durations, segment_durations, i,
                           begin, end, k, segments, desc, rc, abortAt>>

\* Variant: the images are deleted before the rename.
FfmpegExit_DeleteFirst ==
    /\ pc = "ffmpeg"
    /\ rc' = 0
    /\ temp' = TRUE
    /\ pc' = "delete"
    /\ k' = begin
    /\ UNCHANGED <<workdir, cfgFile, images, segs, output, master, input_exists, media, aux, hist,
                   resume, args, durations, segment_durations, i, begin, end,
                   segments, desc, abortAt>>

\* ffmpeg_track_progress (lines 176-192) for a segment: the child exits
\* with some status, which line 192 stores and nobody reads. A failing
\* child may or may not have written its output file.
FfmpegExit ==
    /\ pc = "ffmpeg"
    /\ \E status \in {0, 1} :
          /\ rc' = status
          /\ \E written \in BOOLEAN :
                /\ status = 0 => written
                /\ temp' = (temp \/ written)
    /\ pc' = "rename"
    /\ UNCHANGED <<workdir, cfgFile, images, segs, output, master, input_exists, media, aux, hist,
                   resume, args, durations, segment_durations, i, begin, end,
                   k, segments, desc, abortAt>>

\* Variant: a missing segment_temp.mp4 is passed over.
Rename_Missing ==
    /\ pc = "rename"
    /\ UNCHANGED <<workdir, cfgFile, images, output, master, input_exists, media, aux, deleted>>
    /\ segs' = IF temp THEN segs \cup {i} ELSE segs
    /\ temp' = FALSE
    /\ created' = IF temp THEN [created EXCEPT ![i] = Min(@ + 1, 2)]
                  ELSE created
    /\ pc' = "delete"
    /\ k' = begin
    /\ UNCHANGED <<resume, args, durations, segment_durations, i,
                   begin, end, segments, desc, rc, abortAt>>

\* Line 237: temp_filename.rename(segment_filename).
Rename ==
    /\ pc = "rename"
    /\ UNCHANGED <<workdir, cfgFile, images, output, master, input_exists, media, aux, deleted>>
    /\ IF ~temp
       THEN /\ Abort("L237")
            /\ UNCHANGED <<segs, temp, created>>
       ELSE /\ segs' = segs \cup {i}
            /\ temp' = FALSE
            /\ created' = [created EXCEPT ![i] = Min(@ + 1, 2)]
            /\ pc' = "delete"
            /\ k' = begin
            /\ UNCHANGED <<resume, args, durations, segment_durations, i,
                           begin, end, segments, desc, rc, abortAt>>

\* Lines 239-240, one file per step; after the last one merge_images
\* returns and lines 272-274 close the pass of the loop.
Delete ==
    /\ pc = "delete"
    /\ UNCHANGED <<workdir, cfgFile, segs, temp, output, master, input_exists, media, aux, created>>
    /\ IF k > end
       THEN /\ segments' = Append(segments, i)
            /\ i' = i + 1
            /\ pc' = "loop"
            /\ UNCHANGED <<images, deleted, resume, args, durations,
                           segment_durations, begin, end, k, desc, rc,
                           abortAt>>
       ELSE IF k \notin images
       THEN /\ Abort("L240")
            /\ UNCHANGED <<images, deleted>>
       ELSE /\ images' = images \ {k}
            /\ deleted' = deleted \cup {k}
            /\ k' = k + 1
            /\ UNCHANGED <<pc, resume, args, durations, segment_durations,
                           i, begin, end, segments, desc, rc, abortAt>>

\* Lines 277-281: the sanity check after the loop.
Sanity ==
    /\ pc = "sanity"
    /\ UNCHANGED <<disk, media, aux, hist>>
    /\ IF PastTheEnd(args, frame_count) \in images THEN Abort("L279")
       ELSE /\ pc' = "mux"
            /\ UNCHANGED <<resume, args, durations, segment_durations, i,
                           begin, end, k, segments, desc, rc, abortAt>>

\* ------------------------------------------------------ merge_segments
\* Lines 283-295: the master manifest is written from the list of
\* segments, then the final concat/mux runs; its exit status is dropped
\* too and the script runs off its end. Without its second input the tool
\* fails before it writes.
Mux ==
    /\ pc = "mux"
    /\ master' = Some(segments)
    /\ \E status \in {0, 1} :
          /\ ~input_exists => status = 1
          /\ rc' = status
          /\ \E written \in BOOLEAN :
                /\ status = 0 => written
                /\ ~input_exists => ~written
                /\ output' = (output \/ written)
    /\ pc' = "done"
    /\ UNCHANGED <<workdir, cfgFile, images, segs, temp, input_exists, media, aux,
                   hist, resume,
                   args, durations, segment_durations, i, begin, end, k,
                   segments, desc, abortAt>>

\* --------------------------------------------------------- environment
\* The external upscaler writes one more image file, in any order. It
\* numbers the frames of the input from the configured start index on and
\* may produce one too many; it writes no file twice.
Produce ==
    /\ cfgFile.st = "full"
    /\ \E f \in cfgFile.data.start_index ..
                 (cfgFile.data.start_index + frame_count) :
          /\ f \notin images
          /\ f \notin deleted
          /\ images' = images \cup {f}
    /\ UNCHANGED <<workdir, cfgFile, segs, temp, output, master, input_exists, media, aux, proc, hist>>

\* The input file is moved away or deleted.
LoseInput ==
    /\ input_exists
    /\ input_exists' = FALSE
    /\ UNCHANGED <<workdir, cfgFile, images, segs, temp, output, master,
                   media, aux, proc, hist>>

\* The merger is killed at an arbitrary point; a running child dies with
\* it and may leave its output file behind, and merge_segments may have
\* written its manifest.
Killed ==
    /\ Running
    /\ pc' = "idle"
    /\ Reset
    /\ rc' = -1
    /\ abortAt' = ""
    /\ \E written \in BOOLEAN :
          /\ written => pc \in {"ffmpeg", "mux"}
          /\ temp' = (temp \/ (written /\ pc = "ffmpeg"))
          /\ output' = (output \/ (written /\ pc = "mux" /\ input_exists))
          /\ master' = IF written /\ pc = "mux" THEN Some(segments)
                       ELSE master
    /\ UNCHANGED <<workdir, cfgFile, images, segs, input_exists, media, hist>>

Crash ==
    /\ Killed
    /\ UNCHANGED aux

Steps ==
    \/ VerifyResume
    \/ VerifyNew
    \/ DumpConfig
    \/ Probe
    \/ LoopStep
    \/ Poll
    \/ WaitDone
    \/ MergeStart
    \/ FfmpegExit
    \/ Rename
    \/ Delete
    \/ Sanity
    \/ Mux
    \/ Produce
    \/ Crash

\* The merge under every start index and batch size.
Next ==
    \/ \E c \in MergeLines : StartNew(c)
    \/ \E c \in ResumeLines : StartResume(c)
    \/ Steps

Spec == Init /\ [][Next]_vars

\* Re-runs whose command lines differ field by field, on a short input.
InitConfig ==
    /\ Init
    /\ video_info.frame_count = 2

NextConfig ==
    \/ \E c \in ConfigLines : StartNew(c)
    \/ \E c \in ResumeLines : StartResume(c)
    \/ Steps
    \/ LoseInput

SpecConfig == InitConfig /\ [][NextConfig]_vars

\* ======================================================== properties
cfg == cfgFile.data
InLoop == pc \in {"loop", "wait", "merge", "ffmpeg", "rename", "delete"}
\* The external tool has been started on the batch begin..end.
Invoked == pc \in {"ffmpeg", "rename", "delete"}
NumSegments == num_segments(frame_count, args.batch_size)

\* C1: every image the merger has deleted lies in the batch of a segment
\* whose file exists, in every reachable state, crashes and restarts
\* included.
C1_DeleteAfterRename ==
    \A f \in deleted :
        /\ cfgFile.st = "full"
        /\ \E s \in segs :
              /\ s < num_segments(frame_count, cfg.batch_size)
              /\ f \in SegBegin(cfg, s)..SegEnd(cfg, frame_count, s)

\* A crash in the middle of the deletion loop: part of the batch of an
\* existing segment is deleted, part is still there.
C1_Witness ==
    /\ pc = "idle"
    /\ \E s \in segs :
          LET batch == SegBegin(cfg, s)..SegEnd(cfg, frame_count, s)
          IN  /\ batch \cap deleted # {}
              /\ batch \cap images # {}

\* C2: a non-zero exit of the external tool aborts the run at once: no
\* state of a run that goes on, or ends well, follows a failed invocation.
C2_NonZeroExitAborts == rc = 1 => pc = "aborted"

\* C3: no segment is renamed into place twice, and a pass of the loop that
\* finds its segment on disk moves on to the next index without waiting,
\* invoking the tool or deleting anything.
C3_NoRegeneration ==
    /\ [](\A s \in SegIds : created[s] <= 1)
    /\ [][(pc = "loop" /\ i < NumSegments /\ i \in segs) =>
            /\ pc' \in {"loop", "idle"}
            /\ pc' = "loop" => i' \in {i, i + 1}
            /\ segs' = segs
            /\ temp' = temp
            /\ deleted' = deleted
            /\ images \subseteq images'
            /\ pc' = "loop" => rc' = rc]_vars

\* A resumed run stands at an index whose segment an earlier run created.
C3_Witness ==
    /\ pc = "loop"
    /\ i < NumSegments
    /\ i \in segs
    /\ created[i] = 1

\* C4 as claimed: the batch of segment i ends at
\* start + min((i+1)*batch, frame_count) - 1.
C4_Original ==
    Invoked =>
        /\ i < NumSegments
        /\ begin = args.start_index + i * args.batch_size
        /\ end = args.start_index
                   + Min((i + 1) * args.batch_size, frame_count) - 1

\* C4 amended: the batch of segment i begins at start + i*batch and ends at
\* start + (i+1)*batch - 1, but the last segment ends at
\* start + frame_count - 1; a frame_count of twice the batch size gives two
\* segments of batch_size frames each.
C4_Batch ==
    Invoked =>
        /\ i < NumSegments
        /\ begin = args.start_index + i * args.batch_size
        /\ end = IF i = NumSegments - 1
                 THEN args.start_index + frame_count - 1
                 ELSE args.start_index + (i + 1) * args.batch_size - 1
        /\ frame_count = 2 * args.batch_size =>
              /\ NumSegments = 2
              /\ end - begin + 1 = args.batch_size

\* The tool runs on the last of several segments, with a remainder.
C4_Witness ==
    /\ pc = "ffmpeg"
    /\ i >= 1
    /\ i = NumSegments - 1
    /\ frame_count % args.batch_size # 0

\* C5 as claimed: no image at or beyond start + num_segments*batch is ever
\* merged or deleted.
C5_Original ==
    /\ \A f \in deleted :
          f < cfg.start_index
                + num_segments(frame_count, cfg.batch_size) * cfg.batch_size
    /\ Invoked =>
          end < args.start_index + NumSegments * args.batch_size

\* C5 amended: no image at or beyond start + frame_count is ever merged or
\* deleted, and an image at or beyond start + num_segments*batch is merged
\* and deleted only with the last segment; with no segment nothing is.
C5_TrailingBatch ==
    /\ \A f \in deleted :
          /\ num_segments(frame_count, cfg.batch_size) >= 1
          /\ cfg.start_index <= f
          /\ f < cfg.start_index + frame_count
    /\ Invoked =>
          /\ args.start_index <= begin
          /\ end < args.start_index + frame_count
          /\ end >= args.start_index + NumSegments * args.batch_size =>
                i = NumSegments - 1

\* An image of the trailing partial batch has been deleted.
C5_Witness ==
    /\ cfgFile.st = "full"
    /\ \E f \in deleted :
          f >= cfg.start_index
                 + num_segments(frame_count, cfg.batch_size) * cfg.batch_size

\* C6: the last segment ends at start + frame_count - 1, and the batches of
\* segments 0..num_segments-1 follow one another without gap or overlap
\* from start on.
C6_Cover ==
    InLoop /\ NumSegments >= 1 =>
        /\ SegBegin(args, 0) = args.start_index
        /\ SegEnd(args, frame_count, NumSegments - 1)
             = args.start_index + frame_count - 1
        /\ \A s \in 0..(NumSegments - 1) :
              /\ SegBegin(args, s) <= SegEnd(args, frame_count, s)
              /\ s >= 1 =>
                    SegBegin(args, s) = SegEnd(args, frame_count, s - 1) + 1
        /\ Invoked =>
              /\ begin = SegBegin(args, i)
              /\ end = SegEnd(args, frame_count, i)
              /\ begin <= end

\* The last of several segments is being merged and takes the remainder.
C6_Witness ==
    /\ Invoked
    /\ NumSegments >= 2
    /\ i = NumSegments - 1
    /\ end - begin + 1 > args.batch_size

\* C7: a new run whose configuration differs in some field from the stored
\* one ends at the comparison; the step that leaves it changes neither the
\* configuration file nor any segment, image or output.
C7_MismatchAborts ==
    [][(/\ pc = "verify"
        /\ ~resume
        /\ cfgFile.st = "full"
        /\ \E key \in ConfigKeys : args[key] # cfg[key]) =>
            /\ pc' \in {"verify", "aborted", "idle"}
            /\ pc' = "aborted" => abortAt' = "L137"
            /\ cfgFile' = cfgFile
            /\ segs' = segs
            /\ temp' = temp
            /\ output' = output
            /\ deleted' = deleted
            /\ images \subseteq images']_vars

\* A run was refused although segments were already there.
C7_Witness ==
    /\ pc = "aborted"
    /\ abortAt = "L137"
    /\ segs # {}

\* C8: the configuration file is written only while it does not hold a
\* configuration, by the run that created it, and never changes once it
\* holds one.
C8_WrittenOnce ==
    [][/\ cfgFile.st = "full" => cfgFile' = cfgFile
       /\ cfgFile' # cfgFile =>
             \/ cfgFile.st = "absent" /\ pc = "verify" /\ ~resume
             \/ cfgFile.st = "partial" /\ pc = "dump"]_vars

\* A resumed run has finished on the configuration of an earlier run.
C8_Witness ==
    /\ pc = "done"
    /\ resume
    /\ cfgFile.st = "full"

\* C9: the merge of a batch starts only with its last image on disk, and
\* while that image is absent the waiting merger goes nowhere (but for
\* being killed).
C9_WaitsForMarker ==
    /\ [](pc = "merge" => end \in images)
    /\ [][/\ (pc = "wait" /\ end \notin images) => pc' \in {"wait", "idle"}
          /\ (pc' = "merge" /\ pc # "merge") =>
                pc = "wait" /\ end \in images]_vars

\* The merger has polled and the marker is still absent.
C9_Witness ==
    /\ pc = "wait"
    /\ desc = "Waiting"
    /\ end \notin images

\* C10: the final mux is reached only through the check of the image at
\* start + frame_count, finding none; if one is there the run aborts and
\* leaves output and segments as they were.
C10_SanityCheck ==
    [][/\ (pc = "sanity" /\ pc' \notin {"sanity", "idle"}) =>
             IF args.start_index + frame_count \in images
             THEN /\ pc' = "aborted"
                  /\ abortAt' = "L279"
                  /\ output' = output
                  /\ segs' = segs
             ELSE pc' = "mux"
       /\ (pc' = "mux" /\ pc # "mux") =>
             /\ pc = "sanity"
             /\ args.start_index + frame_count \notin images]_vars

\* The run aborted at the check with segments made and no output.
C10_Witness ==
    /\ pc = "aborted"
    /\ abortAt = "L279"
    /\ segs # {}
    /\ ~output


\* ---------------------------------------------------------------- C11
\* C11: the final mux is started only from the sanity check of a run whose
\* list of segments is 0, 1, ..., num_segments-1 in that order, each of
\* them a file that exists, segments skipped because they were already
\* there included; the run that completes has written exactly that list
\* to the master manifest, and a run passes through the mux once: it is
\* entered from the sanity check alone and left only by finishing or by
\* being killed.
C11_MuxAfterAllSegments ==
    /\ [](pc \in {"mux", "done"} =>
             /\ segments = [n \in 1..(frame_count \div args.batch_size) |-> n - 1]
             /\ \A s \in 0..((frame_count \div args.batch_size) - 1) : s \in segs)
    /\ [](pc = "done" => master = Some(segments))
    /\ [][
            /\ (pc' = "mux" /\ pc # "mux") => pc = "sanity"
            /\ (pc = "mux" /\ pc' # "mux") => pc' \in {"done", "idle"}
            /\ (pc' = "done" /\ pc # "done") =>
                  /\ pc = "mux"
                  /\ master' = Some(segments)
                  /\ segments' = segments
       ]_vars

\* A resumed run has finished with both segments in its manifest although
\* it merged at most the first of them itself: the image of segment 1 is
\* still there.
C11_Witness ==
    /\ pc = "done"
    /\ resume
    /\ frame_count = 2
    /\ args.batch_size = 1
    /\ args.start_index = 0
    /\ master = Some(<<0, 1>>)
    /\ 1 \in images

\* ---------------------------------------------------------------- C12
\* extract.py. The input video is the one video_info describes; the
\* extractor's own state is the record `extractor`: where it is, its
\* parsed arguments, how many times it has started the external tool,
\* its exit status (-1 while it has none) and the number of frames in its
\* output file (-1 while there is none).
Max(a, b) == IF a >= b THEN a ELSE b

ExtractLines ==
    [input_filename : Paths, output_filename : Paths,
     start_index : Starts, num_frames : 0..MaxCount]

\* Variant: the filter keeps the frames after start_index.
ExtractCmd_After(a) ==
    [select_gte |-> a.start_index + 1, vframes |-> a.num_frames]

\* Lines 9-10 and 37-40: "select=gte(n\,%d)" % start_index and
\* "-vframes" str(num_frames).
ExtractCmd(a) ==
    [select_gte |-> a.start_index, vframes |-> a.num_frames]

\* What the external tool writes for such a command from an input of
\* `total` frames: the frames numbered select_gte and up pass the filter,
\* and the output stops after vframes of them.
Extracted(total, cmd) ==
    Min(cmd.vframes,
        Cardinality({n \in 0..(total - 1) : n >= cmd.select_gte}))

ExtractorStopped == {"idle", "aborted", "failed", "done"}

\* parse_args, lines 13-29: the assertions of lines 22 and 25-27 in
\* their order.
ExtractStart(c) ==
    /\ extractor.pc \in ExtractorStopped
    /\ LET ok == /\ input_exists
                 /\ c.input_filename # c.output_filename
                 /\ c.start_index >= 0
                 /\ c.num_frames >= 1
       IN  extractor' = [extractor EXCEPT
                            !.pc = IF ok THEN "call" ELSE "aborted",
                            !.args = c,
                            !.calls = 0,
                            !.status = IF ok THEN -1 ELSE 1]
    /\ UNCHANGED <<disk, media, proc, hist, peer, crashes>>

\* Line 41: subprocess.check_call(cmd) runs the tool once and raises if
\* it exits non-zero. The tool overwrites the output (-y); when it fails
\* it may leave none or a shorter one.
ExtractCall ==
    /\ extractor.pc = "call"
    /\ LET out == Extracted(frame_count, ExtractCmd(extractor.args))
       IN  \E status \in {0, 1}, left \in (-1)..out :
              /\ ~input_exists => status = 1 /\ left = extractor.frames
              /\ status = 0 => left = out
              /\ extractor' = [extractor EXCEPT
                                  !.pc = IF status = 0 THEN "done"
                                         ELSE "failed",
                                  !.calls = @ + 1,
                                  !.status = status,
                                  !.frames = left]
    /\ UNCHANGED <<disk, media, proc, hist, peer, crashes>>

NextExtract ==
    \/ \E c \in ExtractLines : ExtractStart(c)
    \/ ExtractCall
    \/ LoseInput

SpecExtract == Init /\ [][NextExtract]_vars

\* C12: with an existing input, an output path different from the input,
\* start >= 0 and count >= 1 the extractor starts the external tool once;
\* when the tool exits zero the output holds min(count, frames of the
\* input from start on) frames and the extractor exits zero, when it
\* exits non-zero the extractor exits non-zero after that one call; with a
\* missing input, output equal to input, start < 0 or count < 1 it exits
\* non-zero without having started the tool.
C12_Extractor ==
    LET a == extractor.args
        valid == /\ a.input_filename # a.output_filename
                 /\ a.start_index >= 0
                 /\ a.num_frames >= 1
    IN  /\ extractor.pc \in {"call", "failed", "done"} => valid
        /\ extractor.pc = "call" =>
              extractor.calls = 0 /\ extractor.status = -1
        /\ extractor.pc = "done" =>
              /\ extractor.calls = 1
              /\ extractor.status = 0
              /\ extractor.frames =
                    Min(a.num_frames, Max(0, frame_count - a.start_index))
        /\ extractor.pc = "failed" =>
              extractor.calls = 1 /\ extractor.status # 0
        /\ extractor.pc = "aborted" =>
              /\ extractor.calls = 0
              /\ extractor.status # 0
              /\ ~valid \/ ~input_exists

\* Three frames asked for from frame 1 of a two-frame input: one frame.
C12_Witness ==
    /\ extractor.pc = "done"
    /\ frame_count = 2
    /\ extractor.args.start_index = 1
    /\ extractor.args.num_frames = 3
    /\ extractor.frames = 1

\* ---------------------------------------------------------------- C13
PastProbe == InLoop \/ pc \in {"sanity", "mux", "done"}

\* C13: with a track that is not constant-frame-rate a run is past the
\* probe only if the probed list has frame_count entries, and then the
\* list is the run's durations; when the lengths differ no run gets past
\* the probe, so nothing is ever merged or deleted; with a constant frame
\* rate the run has no duration list.
C13_DurationsChecked ==
    /\ (video_info.frame_rate_mode # "CFR" /\ PastProbe) =>
          /\ Len(probed) = frame_count
          /\ durations = Some(probed)
    /\ (video_info.frame_rate_mode # "CFR" /\ Len(probed) # frame_count) =>
          /\ ~PastProbe
          /\ segs = {}
          /\ deleted = {}
          /\ ~temp
          /\ durations = None
    /\ video_info.frame_rate_mode = "CFR" =>
          durations = None /\ segment_durations = None

\* A run on a variable-frame-rate input has passed the probe and holds
\* its list; it is waiting for the images of a segment.
C13_Witness ==
    /\ video_info.frame_rate_mode # "CFR"
    /\ pc = "wait"
    /\ frame_count >= 2
    /\ durations = Some(probed)
    /\ Len(durations.list) = frame_count

\* ---------------------------------------------------------------- C14
\* C14: in variable-frame-rate mode the duration list handed to the
\* merge of a segment is as long as the batch begin..end, and its entry
\* for image f is the probed duration of frame f - start_index of the
\* input (the k-th image of the run goes with the k-th duration).
C14_DurationsOfBatch ==
    (video_info.frame_rate_mode # "CFR" /\ pc \in {"wait", "merge"}) =>
       /\ ~segment_durations.none
       /\ Len(segment_durations.list) = end - begin + 1
       /\ \A f \in begin..end :
             segment_durations.list[f - begin + 1] =
                probed[f - args.start_index + 1]

\* ---------------------------------------------------------------- C15
\* A resumed run that has read the configuration file.
Resumed == resume /\ pc \notin {"verify", "aborted", "idle"}

\* C15: a run started with --resume that gets past verify_config works
\* with the input path, output path, start index, batch size and poll
\* interval of the configuration file, whatever its command line said,
\* and has no checksum of its own; it does not get past verify_config
\* when there is no configuration file, when the input is gone or when
\* the stored work directory is not the one given.
C15_ResumeTakesPersisted ==
    /\ [](Resumed =>
             /\ cfgFile.st = "full"
             /\ args.input_filename = cfg.input_filename
             /\ args.output_filename = cfg.output_filename
             /\ args.start_index = cfg.start_index
             /\ args.batch_size = cfg.batch_size
             /\ args.poll_time = cfg.poll_time
             /\ args.work_directory = cfg.work_directory
             /\ args.md5 = 0)
    /\ [][
            (pc = "verify" /\ resume /\ pc' # "verify") =>
               IF \/ cfgFile.st = "absent"
                  \/ ~input_exists
                  \/ args.work_directory # cfg.work_directory
               THEN pc' \in {"aborted", "idle"}
               ELSE pc' \in {"probe", "aborted", "idle"}
       ]_vars

\* A resumed run at work with batch size 1 (its command line said
\* MaxBatch) on a configuration whose checksum is the second one.
C15_Witness ==
    /\ Resumed
    /\ pc = "wait"
    /\ args.batch_size = 1
    /\ args.batch_size # MaxBatch
    /\ cfg.md5 = 2
    /\ args.md5 = 0

\* ---------------------------------------------------------------- C16
\* The merger is waiting for or merging the batch of segment i.
AtSegment == pc \in {"wait", "merge", "ffmpeg", "rename", "delete"}

\* C16: the segments are taken one at a time in increasing order: the
\* index moves by one, only between two segments and only past a segment
\* that exists; the batch waited for or merged is the batch of the
\* current index and of no other; and while the merger waits for or
\* merges segment i every segment below i exists.
C16_Sequential ==
    /\ [](AtSegment =>
             /\ \A j \in 0..(i - 1) : j \in segs
             /\ i < frame_count \div args.batch_size
             /\ begin = args.start_index + i * args.batch_size
             /\ segments = [n \in 1..i |-> n - 1])
    /\ [][
            /\ i' \in {i, i + 1, 0}
            /\ i' = i + 1 =>
                  /\ pc \in {"loop", "delete"}
                  /\ pc' = "loop"
                  /\ i \in segs'
            /\ (AtSegment /\ AtSegment') => i' = i /\ begin' = begin /\ end' = end
       ]_vars

\* The third segment is being merged, the first two exist.
C16_Witness ==
    /\ pc = "ffmpeg"
    /\ i = 2
    /\ {0, 1} \subseteq segs
    /\ 2 \notin segs

\* ---------------------------------------------------------------- C18
\* Two mergers on one work directory. The process variables are those of
\* the merger that takes the next step and `peer` holds the other one's;
\* the scheduler passes from one to the other at any time. Neither the
\* files of the work directory nor anything else tells a merger that the
\* other one is there.
Switch ==
    /\ peer' = [pc |-> pc, resume |-> resume, args |-> args,
                durations |-> durations,
                segment_durations |-> segment_durations, i |-> i,
                begin |-> begin, end |-> end, k |-> k,
                segments |-> segments, desc |-> desc, rc |-> rc,
                abortAt |-> abortAt]
    /\ pc' = peer.pc
    /\ resume' = peer.resume
    /\ args' = peer.args
    /\ durations' = peer.durations
    /\ segment_durations' = peer.segment_durations
    /\ i' = peer.i
    /\ begin' = peer.begin
    /\ end' = peer.end
    /\ k' = peer.k
    /\ segments' = peer.segments
    /\ desc' = peer.desc
    /\ rc' = peer.rc
    /\ abortAt' = peer.abortAt
    /\ UNCHANGED <<disk, media, hist, crashes, extractor>>

\* The two mergers are given the same plain command line, or resume it.
TwoNew == {c \in MergeLines : c.start_index = 0 /\ c.batch_size = 1}
TwoResume ==
    {c \in ResumeLines :
        /\ c.input_filename = NoPath
        /\ c.work_directory = 1
        /\ c.start_index = 0}

InitTwo ==
    /\ Init
    /\ video_info = [frame_count |-> 2, frame_rate_mode |-> "CFR"]

NextTwo ==
    \/ \E c \in TwoNew : StartNew(c)
    \/ \E c \in TwoResume : StartResume(c)
    \/ Steps
    \/ Switch

SpecTwo == InitTwo /\ [][NextTwo]_vars

\* The assertions of Arguments.__init__ (lines 79, 85-87, 91).
ArgumentAborts == {"L79", "L85", "L86", "L87", "L91"}

\* C18: nothing detects a second merger on the same work directory:
\* while one merger runs, whatever it is doing, another can be started and
\* gets to verify_config, a start is never refused for any reason but its
\* own arguments, and no step of one merger changes the other's state.
C18_Undetected ==
    /\ []((pc \in Stopped /\ peer.pc \notin Stopped /\ workdir) =>
             /\ ENABLED (\E c \in TwoResume :
                            StartResume(c) /\ pc' = "verify")
             /\ ENABLED (\E c \in TwoNew : StartNew(c) /\ pc' = "verify"))
    /\ [][
            (pc \in Stopped /\ pc' # pc /\ peer' = peer) =>
               \/ pc' = "verify"
               \/ pc' = "aborted" /\ abortAt' \in ArgumentAborts
       ]_vars
    /\ [][peer' # peer => pc' = peer.pc /\ peer'.pc = pc]_vars

\* Both mergers are merging segment 0 through segment_temp.mp4 at once.
C18_Witness ==
    /\ pc = "ffmpeg"
    /\ peer.pc = "ffmpeg"
    /\ i = 0
    /\ peer.i = 0
    /\ begin = peer.begin
    /\ end = peer.end


\* ---------------------------------------------------------------- C17
\* Crash and restart under the best of conditions: the input and every
\* command line are valid, the producer writes the images of the run in increasing order
\* and stops before index start_index + frame_count, every call of the
\* external tool exits with status 0, the merger is killed at most
\* MaxCrashes times, and a killed merger is started again: with --resume
\* when there is a configuration file, with its first command line when
\* there is none yet.
LiveLines == {c \in MergeLines : c.start_index >= 0 /\ c.batch_size >= 1}

StartLive ==
    /\ pc = "idle"
    /\ cfgFile.st = "absent"
    /\ \E c \in LiveLines : StartNew(c)

ResumeLive ==
    /\ pc = "idle"
    /\ cfgFile.st # "absent"
    /\ \E c \in TwoResume : StartResume(c)

ProduceLive ==
    /\ cfgFile.st = "full"
    /\ \E f \in cfg.start_index .. (cfg.start_index + frame_count - 1) :
          /\ f \notin images
          /\ f \notin deleted
          /\ \A g \in cfg.start_index .. (f - 1) :
                g \in images \/ g \in deleted
          /\ images' = images \cup {f}
    /\ UNCHANGED <<workdir, cfgFile, segs, temp, output, master,
                   input_exists, media, aux, proc, hist>>

CrashLive ==
    /\ crashes < MaxCrashes
    /\ Killed
    /\ crashes' = crashes + 1
    /\ UNCHANGED <<peer, extractor>>

MergerLive ==
    \/ StartLive
    \/ ResumeLive
    \/ VerifyResume
    \/ VerifyNew
    \/ DumpConfig
    \/ Probe
    \/ LoopStep
    \/ Poll
    \/ WaitDone
    \/ MergeStart
    \/ FfmpegExit /\ rc' = 0
    \/ Rename
    \/ Delete
    \/ Sanity
    \/ Mux /\ rc' = 0

NextLive ==
    \/ MergerLive
    \/ ProduceLive
    \/ CrashLive

\* The input passes the check of line 171.
InitLive ==
    /\ Init
    /\ video_info.frame_rate_mode # "CFR" => Len(probed) = frame_count

SpecLive ==
    /\ InitLive
    /\ [][NextLive]_vars
    /\ WF_vars(MergerLive)
    /\ WF_vars(ProduceLive)

\* C17: under these conditions the merger eventually has every segment
\* 0..num_segments-1 and has made the final mux.
C17_Progress ==
    <>(/\ pc = "done"
       /\ \A s \in 0..((frame_count \div args.batch_size) - 1) : s \in segs)

\* ---------------------------------------------------------------- C19
\* C19: the wait ends on the last image of the batch alone, but a merge
\* that starts with any image of begin..end missing stops at the
\* assertion of line 212: the external tool is not started, no segment
\* appears and no image is deleted.
C19_MissingImageAborts ==
    /\ [](pc = "merge" => end \in images /\ i \notin segs)
    /\ [][
            (pc = "merge" /\ pc' # "merge" /\ \E f \in begin..end : f \notin images)
               => /\ pc' \in {"aborted", "idle"}
                  /\ pc' = "aborted" => abortAt' = "L212"
                  /\ UNCHANGED <<segs, temp, images, deleted, created, output>>
       ]_vars

\* The second image of a batch of two was written before the first and
\* the run stopped at line 212 with nothing merged or deleted.
C19_Witness ==
    /\ pc = "aborted"
    /\ abortAt = "L212"
    /\ cfg.batch_size = 2
    /\ cfg.start_index = 0
    /\ 0 \notin images
    /\ 1 \in images
    /\ segs = {}
    /\ deleted = {}

\* ---------------------------------------------------------------- C20
\* C20: with fewer frames than one batch the merger goes from the probe
\* straight through the loop to the sanity check: it never waits for,
\* merges or deletes anything, no segment and no temporary file appears,
\* the check of index start_index + frame_count is still made, and the
\* final mux gets a manifest without segments.
C20_NoSegments ==
    /\ []((cfgFile.st = "full" /\ frame_count < cfg.batch_size) =>
             /\ ~AtSegment
             /\ segs = {}
             /\ deleted = {}
             /\ ~temp
             /\ segments = <<>>
             /\ i = 0
             /\ pc = "done" => master = Some(<<>>))
    /\ [][
            (pc = "sanity" /\ pc' # "sanity" /\ frame_count < args.batch_size) =>
               IF (args.start_index + frame_count) \in images
               THEN pc' \in {"aborted", "idle"} /\ (pc' = "aborted" => abortAt' = "L279")
               ELSE pc' \in {"mux", "idle"}
       ]_vars

\* Such a run has finished; the image the producer wrote is still there.
C20_Witness ==
    /\ pc = "done"
    /\ frame_count < args.batch_size
    /\ master = Some(<<>>)
    /\ args.start_index \in images
    /\ segs = {}

====
